---- MODULE Spec2Model ----
(***************************************************************************)
(* A model of CkbClient (client/src/sync.rs): the query facade over a      *)
(* remote CKB node and the two transaction assemblers gather and disperse. *)
(*                                                                         *)
(* One behaviour is one invocation of one public method.  The remote node  *)
(* is the environment: every reply (a transport error, an absent object, a *)
(* string that may or may not parse, a list of cells) is chosen            *)
(* nondeterministically.  `sent` is the log of the requests the client     *)
(* posted, in order.                                                       *)
(*                                                                         *)
(* Option<T> is a sequence of length at most one: <<>> is None, <<v>> is   *)
(* Some(v).  A String is a sequence of one-character strings.  u64 is      *)
(* modelled at the reduced width WordBits (TLC's integers are 32 bits      *)
(* wide): every rule that depends on the width is stated with U64Max.      *)
(***************************************************************************)
EXTENDS Integers, Sequences, FiniteSets

\* ------------------------------------------------------------- bounds
WordBits == 4       \* width of the modelled u64
MaxCells == 2       \* longest cell list the node replies with
MaxCount == 2       \* largest max_count passed to disperse

U64Max == 2 ^ WordBits - 1

None == <<>>
Some(v) == <<v>>
IsSome(o) == Len(o) = 1
Unwrap(o) == o[1]

\* ------------------------------------------------------------- strings
Digits == <<"0", "1", "2", "3", "4", "5", "6", "7", "8", "9">>

DigitChar(d) == Digits[d + 1]

IsDigit(c) == \E d \in 0..9 : DigitChar(d) = c

DigitVal(c) == CHOOSE d \in 0..9 : DigitChar(d) = c

\* u64::to_string: the decimal digits, no sign, no leading zero.
RECURSIVE ToString(_)
ToString(n) ==
    IF n < 10 THEN <<DigitChar(n)>>
    ELSE ToString(n \div 10) \o <<DigitChar(n % 10)>>

\* The digits of str::parse::<u64> folded most significant first; None on a
\* character that is no digit or when the value leaves the u64 range.
RECURSIVE ParseDigits(_, _)
ParseDigits(acc, s) ==
    IF s = <<>> THEN Some(acc)
    ELSE IF ~IsDigit(Head(s)) THEN None
    ELSE IF acc * 10 + DigitVal(Head(s)) > U64Max THEN None
    ELSE ParseDigits(acc * 10 + DigitVal(Head(s)), Tail(s))

\* str::parse::<u64>: an optional leading "+", then at least one digit.
ParseU64(s) ==
    LET body == IF s # <<>> /\ Head(s) = "+" THEN Tail(s) ELSE s
    IN  IF body = <<>> THEN None ELSE ParseDigits(0, body)

\* u64::wrapping_add in place of checked_add.
WrappingAdd(a, b) == Some((a + b) % (U64Max + 1))

\* u64::checked_add.
CheckedAdd(a, b) == IF a + b > U64Max THEN None ELSE Some(a + b)

\* Iterator::try_fold(0u64, u64::checked_add) over the parsed capacities.
RECURSIVE TryFoldAdd(_, _)
TryFoldAdd(acc, caps) ==
    IF caps = <<>> THEN Some(acc)
    ELSE LET s == CheckedAdd(acc, Head(caps))
         IN  IF IsSome(s) THEN TryFoldAdd(Unwrap(s), Tail(caps)) ELSE None

\* Result<T>: Ok(v) or Err(e).
Ok(v) == [ok |-> TRUE, v |-> <<v>>, e |-> ""]
Err(e) == [ok |-> FALSE, v |-> <<>>, e |-> e]

\* ------------------------------------------------------------- domain
\* A lock script.  `occ` is what OccupiedCapacity::occupied_capacity returns
\* for an output with empty data, this lock and no type script: Some(minimum)
\* or None when that computation overflows.  The minimum is positive: the
\* capacity field of an output occupies space itself.
Script(id, occ) == [id |-> id, occ |-> occ]

SourceScripts == {Script("src1", Some(1)), Script("src2", Some(2))}

DestScripts == {Script("dst1", Some(1)), Script("dst2", Some(2)),
                Script("dst3", Some(3)), Script("dstX", None)}

\* Script::hash: a digest that identifies the script.
Hash(lock) == [digest_of |-> lock.id]

Heights == {0, 1}

\* (from, to) pairs passed to the height-range methods.
RangeArgs == {<<None, None>>, <<Some(0), None>>, <<None, Some(1)>>,
              <<Some(1), Some(1)>>}

BlockHashes == {"h1", "h2"}

\* Replies of get_tip_block_number: decimal strings of heights, one with a
\* leading zero, and one that is no number.
TipStrings == {<<"2">>, <<"0", "3">>, <<"x">>}

\* Capacity strings of the cells the node lists.
CapStrings == {ToString(0), ToString(1), ToString(3), ToString(U64Max - 1),
               ToString(U64Max), <<"+", "2">>, <<"x">>}

CapLists == UNION {[1..n -> CapStrings] : n \in 0..MaxCells}

\* The cells of a reply: the i-th cell has out point i.
CellsOf(caps) == [i \in 1..Len(caps) |-> [capacity |-> caps[i], out_point |-> i]]

\* ------------------------------------------------------------- requests
ReqTip == [rpc |-> "get_tip_block_number", params |-> <<>>]

ReqBlockHash(h) == [rpc |-> "get_block_hash", params |-> <<ToString(h)>>]

ReqBlock(hash) == [rpc |-> "get_block", params |-> <<hash>>]

ReqCells(lock, from, to) ==
    [rpc |-> "get_cells_by_lock_hash",
     params |-> <<Hash(lock), ToString(from), ToString(to)>>]

\* Methods that post one request and return the reply as it is.
PlainMethods == {"tip_header", "live_cell", "send", "trace",
                 "local_node_info", "get_peers", "add_node"}

\* Methods that post one request and turn an absent object into an error.
OptionMethods == {"block_by_hash", "pool_transaction", "transaction",
                  "transaction_trace"}

RpcOf(m) ==
    CASE m = "tip_header" -> "get_tip_header"
      [] m = "live_cell" -> "get_live_cell"
      [] m = "send" -> "send_transaction"
      [] m = "trace" -> "trace_transaction"
      [] m = "local_node_info" -> "local_node_info"
      [] m = "get_peers" -> "get_peers"
      [] m = "add_node" -> "add_node"
      [] m = "block_by_hash" -> "get_block"
      [] m = "pool_transaction" -> "get_pool_transaction"
      [] m = "transaction" -> "get_transaction"
      [] m = "transaction_trace" -> "get_transaction_trace"

AbsentError(m) ==
    CASE m = "block_by_hash" -> "fetch block failed"
      [] m = "pool_transaction" -> "fetch pool transaction failed"
      [] m = "transaction" -> "fetch transaction failed"
      [] m = "transaction_trace" -> "fetch transaction trace failed"

\* Methods that go through block_hash, through block_by_number, and through
\* cells_by_lock_hash.
HashFamily == {"block_hash", "block_by_number", "genesis_block", "last_block"}

BlockFamily == {"block_by_number", "genesis_block", "last_block"}

CellsFamily == {"cells_by_lock_hash", "total_capacity", "gather", "disperse"}

\* ------------------------------------------------------------- summation
\* map(|c| c.capacity.parse::<u64>()).collect::<Result<Vec<_>, _>>():
\* None as soon as one capacity does not parse.
RECURSIVE ParseAll(_)
ParseAll(cs) ==
    IF cs = <<>> THEN Some(<<>>)
    ELSE LET p == ParseU64(Head(cs).capacity)
             rest == ParseAll(Tail(cs))
         IN  IF IsSome(p) /\ IsSome(rest)
             THEN Some(<<Unwrap(p)>> \o Unwrap(rest))
             ELSE None

\* The capacity summation shared by total_capacity, gather and disperse.
SumCapacity(cs) ==
    LET caps == ParseAll(cs)
    IN  IF ~IsSome(caps) THEN Err("parse capacity failed")
        ELSE LET sum == TryFoldAdd(0, Unwrap(caps))
             IN  IF IsSome(sum) THEN Ok(Unwrap(sum))
                 ELSE Err("sum capacity overflow")

\* ------------------------------------------------------------- assembly
\* One CellInput per cell, in the order of the reply.
InputsOf(cs) ==
    [i \in 1..Len(cs) |->
        [previous_output |-> cs[i].out_point, args |-> <<>>, since |-> 0]]

\* CellOutput::new(Capacity::shannons(capacity), Vec::new(), lock, None).
NewOutput(capacity, lock) ==
    [capacity |-> capacity, data |-> <<>>, lock |-> lock, type_ |-> None]

\* OccupiedCapacity::occupied_capacity of an output.
OccupiedCapacity(output) == output.lock.occ

\* Capacity::safe_add.
SafeAdd(a, b) == IF a + b > U64Max THEN None ELSE Some(a + b)

Transaction(ins, outs) ==
    [version |-> 0, deps |-> <<>>, inputs |-> ins, outputs |-> outs,
     witnesses |-> <<>>, hash |-> "default"]

\* unwrap_or(1) in place of unwrap_or(0).
ResolveFromOne(from) == IF IsSome(from) THEN Unwrap(from) ELSE 1

\* from.unwrap_or(0).
ResolveFrom(from) == IF IsSome(from) THEN Unwrap(from) ELSE 0

\* The tip height queried whether or not the height is given.
AlwaysNeedsTip(height) == TRUE

\* `if let Some(h) = x { Ok(h) } else { self.tip_block_number() }`: the tip
\* height is queried exactly when the optional height is absent.
NeedsTip(height) == ~IsSome(height)

\* A tip reply that does not parse taken as height 0.
ParseBlockNumberOrZero(s) == IF IsSome(ParseU64(s)) THEN ParseU64(s) ELSE Some(0)

\* r.parse() of the tip reply into a BlockNumber.
ParseBlockNumber(s) == ParseU64(s)

\* disperse without its precondition.
InputNeverEmpty(cs) == FALSE

\* cells.is_empty(), the precondition of disperse.
InputIsEmpty(cs) == cs = <<>>

\* The loop guard off by one.
LoopContinuesInclusive(capacity, outs, max_count) ==
    capacity > 0 /\ Len(outs) <= max_count

\* The guard of the output loop of disperse.
LoopContinues(capacity, outs, max_count) ==
    capacity > 0 /\ Len(outs) < max_count

\* The output of an iteration left at capacity 0.
MinimalOutputUnset(lock) ==
    LET output == NewOutput(0, lock)
    IN  IF IsSome(OccupiedCapacity(output)) THEN Some(output) ELSE None

\* The output one iteration of the loop builds: capacity 0, then set to its
\* own occupied capacity (None when that computation overflows).
MinimalOutput(lock) ==
    LET output == NewOutput(0, lock)
        occ == OccupiedCapacity(output)
    IN  IF IsSome(occ) THEN Some([output EXCEPT !.capacity = Unwrap(occ)])
        ELSE None

\* The leftover dropped instead of added.
AbsorbLeftoverDropped(outs, capacity) ==
    IF outs = <<>> THEN [kind |-> "panic", outs |-> outs]
    ELSE [kind |-> "ok", outs |-> outs]

\* The leftover added to the last output instead of the first.
AbsorbLeftoverLast(outs, capacity) ==
    IF outs = <<>> THEN [kind |-> "panic", outs |-> outs]
    ELSE [kind |-> "ok",
          outs |-> [outs EXCEPT ![Len(outs)].capacity = @ + capacity]]

\* outputs[0].capacity = outputs[0].capacity.safe_add(capacity)?: indexing an
\* empty vector panics, an overflowing sum is an error.
AbsorbLeftover(outs, capacity) ==
    IF outs = <<>> THEN [kind |-> "panic", outs |-> outs]
    ELSE LET sum == SafeAdd(outs[1].capacity, capacity)
         IN  IF IsSome(sum)
             THEN [kind |-> "ok", outs |-> [outs EXCEPT ![1].capacity = Unwrap(sum)]]
             ELSE [kind |-> "err", outs |-> outs]

\* ------------------------------------------------------------- state
VARIABLES
    pc,         \* position of the invocation: idle, tip, hash, block, cells,
                \* single, loop, leftover, done
    method,     \* the public method invoked
    arg,        \* its arguments
    sent,       \* the requests posted to the node, in order
    tip,        \* Some(the reply of get_tip_block_number), once received
    cells,      \* Some(the cells the node listed), once received
    capacity,   \* the local `capacity` of gather and disperse
    inputs,     \* the local `inputs`
    outputs,    \* the local `outputs`
    outcome,    \* pending, ok, err or panic
    error,      \* the message of the error returned
    value       \* Some(the value returned)

vars == <<pc, method, arg, sent, tip, cells, capacity, inputs, outputs,
          outcome, error, value>>

NoScript == Script("none", None)

NoArgs == [height |-> None, from |-> None, to |-> None, hash |-> "",
           lock_in |-> NoScript, lock_out |-> NoScript, max_count |-> 0]

Init ==
    /\ pc = "idle"
    /\ method = ""
    /\ arg = NoArgs
    /\ sent = <<>>
    /\ tip = None
    /\ cells = None
    /\ capacity = 0
    /\ inputs = <<>>
    /\ outputs = <<>>
    /\ outcome = "pending"
    /\ error = ""
    /\ value = None

\* The invocation returns (or, for "panic", unwinds).
Finish(kind, err, val) ==
    /\ pc' = "done"
    /\ outcome' = kind
    /\ error' = err
    /\ value' = val

\* A method is invoked and posts its first request.
Invoke(m, a, req, next) ==
    /\ pc = "idle"
    /\ method' = m
    /\ arg' = a
    /\ sent' = <<req>>
    /\ pc' = next
    /\ UNCHANGED <<tip, cells, capacity, inputs, outputs, outcome, error, value>>

\* ------------------------------------------------------------- invocations
\* block_hash and its callers: the hash of the given height, or of the tip.
HeightCall(m, height) ==
    LET a == [NoArgs EXCEPT !.height = height]
    IN  IF NeedsTip(height)
        THEN Invoke(m, a, ReqTip, "tip")
        ELSE Invoke(m, a, ReqBlockHash(Unwrap(height)), "hash")

\* cells_by_lock_hash and its callers.
RangeCall(m, lock_in, lock_out, from, to, max_count) ==
    LET a == [NoArgs EXCEPT !.from = from, !.to = to, !.lock_in = lock_in,
                            !.lock_out = lock_out, !.max_count = max_count]
    IN  IF NeedsTip(to)
        THEN Invoke(m, a, ReqTip, "tip")
        ELSE Invoke(m, a, ReqCells(lock_in, ResolveFrom(from), Unwrap(to)), "cells")

CallTipBlockNumber == Invoke("tip_block_number", NoArgs, ReqTip, "tip")

CallBlockHash ==
    \E height \in {None} \cup {Some(h) : h \in Heights} :
        HeightCall("block_hash", height)

CallBlockByNumber ==
    \E height \in {None} \cup {Some(h) : h \in Heights} :
        HeightCall("block_by_number", height)

CallGenesisBlock == HeightCall("genesis_block", Some(0))

CallLastBlock == HeightCall("last_block", None)

CallBlockByHash ==
    \E h \in BlockHashes :
        Invoke("block_by_hash", [NoArgs EXCEPT !.hash = h], ReqBlock(h), "block")

\* tip_header, live_cell, send, pool_transaction, transaction, trace,
\* transaction_trace, local_node_info, get_peers, add_node.
CallSingle ==
    \E m \in PlainMethods \cup (OptionMethods \ {"block_by_hash"}) :
        Invoke(m, NoArgs, [rpc |-> RpcOf(m), params |-> <<>>], "single")

CallCellsByLockHash ==
    \E lock \in SourceScripts, r \in RangeArgs :
        RangeCall("cells_by_lock_hash", lock, NoScript, r[1], r[2], 0)

CallTotalCapacity ==
    \E lock \in SourceScripts :
        RangeCall("total_capacity", lock, NoScript, None, None, 0)

CallGather ==
    \E lock_in \in SourceScripts, lock_out \in DestScripts, r \in RangeArgs :
        RangeCall("gather", lock_in, lock_out, r[1], r[2], 0)

CallDisperse ==
    \E lock_in \in SourceScripts, lock_out \in DestScripts, r \in RangeArgs,
       max_count \in 0..MaxCount :
        RangeCall("disperse", lock_in, lock_out, r[1], r[2], max_count)

\* ------------------------------------------------------------- replies
\* The request in flight fails in the transport: the error is returned.
TransportError ==
    /\ pc \in {"tip", "hash", "block", "cells", "single"}
    /\ Finish("err", "transport", None)
    /\ UNCHANGED <<method, arg, sent, tip, cells, capacity, inputs, outputs>>

\* The reply of get_tip_block_number arrives.
TipReply ==
    /\ pc = "tip"
    /\ \E s \in TipStrings :
         LET n == ParseBlockNumber(s)
         IN  /\ tip' = Some(s)
             /\ IF ~IsSome(n)
                THEN /\ Finish("err", "parse block number failed", None)
                     /\ UNCHANGED sent
                ELSE CASE method = "tip_block_number" ->
                            /\ Finish("ok", "", Some(Unwrap(n)))
                            /\ UNCHANGED sent
                       [] method \in HashFamily ->
                            /\ sent' = Append(sent, ReqBlockHash(Unwrap(n)))
                            /\ pc' = "hash"
                            /\ UNCHANGED <<outcome, error, value>>
                       [] method \in CellsFamily ->
                            /\ sent' = Append(sent,
                                   ReqCells(arg.lock_in, ResolveFrom(arg.from), Unwrap(n)))
                            /\ pc' = "cells"
                            /\ UNCHANGED <<outcome, error, value>>
    /\ UNCHANGED <<method, arg, cells, capacity, inputs, outputs>>

\* The reply of get_block_hash arrives: a hash, or none for that height.
BlockHashReply ==
    /\ pc = "hash"
    /\ \E r \in {None} \cup {Some(h) : h \in BlockHashes} :
         IF ~IsSome(r)
         THEN /\ Finish("err", "fetch block hash failed", None)
              /\ UNCHANGED sent
         ELSE IF method = "block_hash"
         THEN /\ Finish("ok", "", r)
              /\ UNCHANGED sent
         ELSE /\ sent' = Append(sent, ReqBlock(Unwrap(r)))
              /\ pc' = "block"
              /\ UNCHANGED <<outcome, error, value>>
    /\ UNCHANGED <<method, arg, tip, cells, capacity, inputs, outputs>>

\* The reply of get_block arrives: the block, or none.
BlockReply ==
    /\ pc = "block"
    /\ \E present \in BOOLEAN :
         IF present
         THEN Finish("ok", "", Some([block_of |-> sent[Len(sent)].params[1]]))
         ELSE Finish("err", "fetch block failed", None)
    /\ UNCHANGED <<method, arg, sent, tip, cells, capacity, inputs, outputs>>

\* The reply of a single-request method arrives.
SingleReply ==
    /\ pc = "single"
    /\ \E present \in BOOLEAN :
         IF method \in OptionMethods /\ ~present
         THEN Finish("err", AbsentError(method), None)
         ELSE Finish("ok", "", Some([reply_of |-> RpcOf(method)]))
    /\ UNCHANGED <<method, arg, sent, tip, cells, capacity, inputs, outputs>>

\* The reply of get_cells_by_lock_hash arrives and the caller's closure runs
\* on it (for disperse: up to the output loop).
CellsReply ==
    /\ pc = "cells"
    /\ \E caps \in CapLists :
         LET cs == CellsOf(caps)
             sum == SumCapacity(cs)
         IN  /\ cells' = Some(cs)
             /\ CASE method = "cells_by_lock_hash" ->
                       /\ Finish("ok", "", Some(cs))
                       /\ UNCHANGED <<capacity, inputs, outputs>>
                  [] method = "total_capacity" ->
                       /\ IF sum.ok
                          THEN Finish("ok", "", sum.v)
                          ELSE Finish("err", sum.e, None)
                       /\ UNCHANGED <<capacity, inputs, outputs>>
                  [] method = "gather" ->
                       IF sum.ok
                       THEN /\ capacity' = Unwrap(sum.v)
                            /\ inputs' = InputsOf(cs)
                            /\ outputs' = <<NewOutput(Unwrap(sum.v), arg.lock_out)>>
                            /\ Finish("ok", "", Some(Transaction(inputs', outputs')))
                       ELSE /\ Finish("err", sum.e, None)
                            /\ UNCHANGED <<capacity, inputs, outputs>>
                  [] method = "disperse" ->
                       IF InputIsEmpty(cs)
                       THEN /\ Finish("err", "input is empty", None)
                            /\ UNCHANGED <<capacity, inputs, outputs>>
                       ELSE IF ~sum.ok
                       THEN /\ Finish("err", sum.e, None)
                            /\ UNCHANGED <<capacity, inputs, outputs>>
                       ELSE /\ capacity' = Unwrap(sum.v)
                            /\ inputs' = InputsOf(cs)
                            /\ outputs' = <<>>
                            /\ pc' = "loop"
                            /\ UNCHANGED <<outcome, error, value>>
    /\ UNCHANGED <<method, arg, sent, tip>>

\* ------------------------------------------------------------- disperse
\* One evaluation of the loop guard of disperse and, when it holds, one
\* iteration of the body.
DisperseStep ==
    /\ pc = "loop"
    /\ IF LoopContinues(capacity, outputs, arg.max_count)
       THEN LET output == MinimalOutput(arg.lock_out)
            IN  IF ~IsSome(output)
                THEN /\ Finish("err", "capacity overflow", None)
                     /\ UNCHANGED <<capacity, outputs>>
                ELSE IF capacity < Unwrap(output).capacity
                THEN /\ pc' = "leftover"
                     /\ UNCHANGED <<capacity, outputs, outcome, error, value>>
                ELSE /\ capacity' = capacity - Unwrap(output).capacity
                     /\ outputs' = Append(outputs, Unwrap(output))
                     /\ UNCHANGED <<pc, outcome, error, value>>
       ELSE /\ pc' = "leftover"
            /\ UNCHANGED <<capacity, outputs, outcome, error, value>>
    /\ UNCHANGED <<method, arg, sent, tip, cells, inputs>>

\* After the loop: the leftover goes to outputs[0] and the transaction is
\* returned.
DisperseLeftover ==
    /\ pc = "leftover"
    /\ IF capacity > 0
       THEN LET r == AbsorbLeftover(outputs, capacity)
            IN  CASE r.kind = "panic" ->
                       /\ Finish("panic", "index out of bounds", None)
                       /\ UNCHANGED outputs
                  [] r.kind = "err" ->
                       /\ Finish("err", "capacity overflow", None)
                       /\ UNCHANGED outputs
                  [] r.kind = "ok" ->
                       /\ outputs' = r.outs
                       /\ Finish("ok", "", Some(Transaction(inputs, outputs')))
       ELSE /\ Finish("ok", "", Some(Transaction(inputs, outputs)))
            /\ UNCHANGED outputs
    /\ UNCHANGED <<method, arg, sent, tip, cells, capacity, inputs>>

Next ==
    \/ CallTipBlockNumber
    \/ CallBlockHash
    \/ CallBlockByNumber
    \/ CallGenesisBlock
    \/ CallLastBlock
    \/ CallBlockByHash
    \/ CallSingle
    \/ CallCellsByLockHash
    \/ CallTotalCapacity
    \/ CallGather
    \/ CallDisperse
    \/ TransportError
    \/ TipReply
    \/ BlockHashReply
    \/ BlockReply
    \/ SingleReply
    \/ CellsReply
    \/ DisperseStep
    \/ DisperseLeftover

Spec == Init /\ [][Next]_vars

\* ------------------------------------------------------------- properties
\* The mathematical sum of a sequence of naturals (no width).
RECURSIVE MathSum(_)
MathSum(ns) == IF ns = <<>> THEN 0 ELSE Head(ns) + MathSum(Tail(ns))

OutputCapacities(outs) == [i \in 1..Len(outs) |-> outs[i].capacity]

\* The node has listed cells whose capacities all parse.
Listed == IsSome(cells) /\ IsSome(ParseAll(Unwrap(cells)))

\* The sum of the listed capacities, as a mathematical integer.
ListedTotal == MathSum(Unwrap(ParseAll(Unwrap(cells))))

Returned(m) == pc = "done" /\ outcome = "ok" /\ method = m

ReturnedTx == Unwrap(value)

\* The minimum-occupied-capacity of an output, when its computation succeeds.
HasMinimum(o) == IsSome(OccupiedCapacity(o))

Minimum(o) == Unwrap(OccupiedCapacity(o))

\* C1: in every transaction a successful gather or disperse returns, the
\* capacities of the outputs sum to exactly the sum of the capacities of the
\* cells the node listed.
C1_Conservation ==
    (Returned("gather") \/ Returned("disperse")) =>
        /\ Listed
        /\ MathSum(OutputCapacities(ReturnedTx.outputs)) = ListedTotal

\* A disperse that returned two outputs after adding a leftover to the first.
C1_Witness ==
    /\ Returned("disperse")
    /\ Len(ReturnedTx.outputs) = 2
    /\ capacity > 0
    /\ Len(Unwrap(cells)) = 2

\* C2: every output disperse builds has at least the minimum-occupied-capacity
\* of an output with empty data and the destination lock, when the loop has
\* ended (before the leftover is added) and in the transaction returned.
C2_MinimumCapacity ==
    /\ (method = "disperse" /\ pc = "leftover") =>
           \A i \in 1..Len(outputs) :
               /\ HasMinimum(outputs[i])
               /\ outputs[i].capacity >= Minimum(outputs[i])
    /\ Returned("disperse") =>
           \A i \in 1..Len(ReturnedTx.outputs) :
               /\ ReturnedTx.outputs[i].lock = arg.lock_out
               /\ ReturnedTx.outputs[i].data = <<>>
               /\ HasMinimum(ReturnedTx.outputs[i])
               /\ ReturnedTx.outputs[i].capacity >= Minimum(ReturnedTx.outputs[i])

\* A disperse whose minimum is above 1 returned two outputs, the first one
\* with a leftover.
C2_Witness ==
    /\ Returned("disperse")
    /\ Len(ReturnedTx.outputs) = 2
    /\ Minimum(ReturnedTx.outputs[2]) = 2
    /\ ReturnedTx.outputs[1].capacity > 2

\* C3: the single output of every transaction a successful gather returns has
\* at least its minimum-occupied-capacity.
C3_GatherMeetsMinimum ==
    Returned("gather") =>
        \A i \in 1..Len(ReturnedTx.outputs) :
            HasMinimum(ReturnedTx.outputs[i]) =>
                ReturnedTx.outputs[i].capacity >= Minimum(ReturnedTx.outputs[i])

\* C4: when the listed capacities all parse and their sum exceeds the largest
\* u64, total_capacity, gather and disperse fail with the overflow error and
\* return nothing; a value they return is the exact sum.
C4_OverflowDetected ==
    (method \in {"total_capacity", "gather", "disperse"} /\ Listed) =>
        /\ ListedTotal > U64Max =>
               /\ pc = "done"
               /\ outcome = "err"
               /\ error = "sum capacity overflow"
               /\ value = None
        /\ Returned("total_capacity") => Unwrap(value) = ListedTotal
        /\ Returned("gather") => ReturnedTx.outputs[1].capacity = ListedTotal
        /\ (method = "disperse" /\ pc \in {"loop", "leftover"}) =>
               capacity + MathSum(OutputCapacities(outputs)) = ListedTotal

\* Two cells that each parse and together exceed the largest u64.
C4_Witness ==
    /\ method = "gather"
    /\ Listed
    /\ Len(Unwrap(cells)) = 2
    /\ ListedTotal > U64Max
    /\ error = "sum capacity overflow"

\* C5: on an empty cell list disperse fails with the empty-input error, for
\* every max_count, and gather returns a transaction with no input and one
\* output of capacity 0 under the destination lock.
C5_EmptyInputPolicy ==
    (IsSome(cells) /\ Unwrap(cells) = <<>>) =>
        /\ method = "disperse" =>
               /\ pc = "done"
               /\ outcome = "err"
               /\ error = "input is empty"
               /\ value = None
        /\ method = "gather" =>
               /\ Returned("gather")
               /\ ReturnedTx.inputs = <<>>
               /\ Len(ReturnedTx.outputs) = 1
               /\ ReturnedTx.outputs[1].capacity = 0
               /\ ReturnedTx.outputs[1].lock = arg.lock_out

\* disperse with max_count > 0 got an empty list.
C5_Witness ==
    /\ method = "disperse"
    /\ arg.max_count = MaxCount
    /\ IsSome(cells)
    /\ Unwrap(cells) = <<>>
    /\ pc = "done"

\* The case C6 is about: disperse has finished on a non-empty list of cells
\* whose capacities parse and sum to a u64, for a destination lock that has a
\* minimum M.
DisperseDone ==
    /\ method = "disperse"
    /\ pc = "done"
    /\ Listed
    /\ Unwrap(cells) # <<>>
    /\ ListedTotal <= U64Max
    /\ HasMinimum(NewOutput(0, arg.lock_out))

DestMinimum == Minimum(NewOutput(0, arg.lock_out))

\* n outputs: the first of capacity `first`, the others of capacity m.
Shape(outs, n, first, m) ==
    /\ Len(outs) = n
    /\ n >= 1 => outs[1].capacity = first
    /\ \A i \in 2..n : outs[i].capacity = m

\* The outputs C6 states for C = q*M + r and max_count K.
LeftoverShape(outs, C, M, K) ==
    LET q == C \div M
        r == C % M
    IN  IF q <= K THEN Shape(outs, q, M + r, M)
        ELSE Shape(outs, K, M + (C - K * M), M)

\* C6 as stated: for every non-empty list, every M and every K the result of
\* disperse has the outputs of LeftoverShape.
C6_LeftoverAbsorptionAsStated ==
    DisperseDone =>
        /\ outcome = "ok"
        /\ LeftoverShape(ReturnedTx.outputs, ListedTotal, DestMinimum, arg.max_count)

\* C6 as amended: the outputs are those of LeftoverShape when K >= 1 and
\* q >= 1; a total of 0 gives a transaction without outputs; otherwise
\* (C > 0 and K = 0 or C < M) no transaction is returned, the call panics.
C6_LeftoverAbsorption ==
    DisperseDone =>
        IF ListedTotal = 0
        THEN outcome = "ok" /\ ReturnedTx.outputs = <<>>
        ELSE IF arg.max_count >= 1 /\ ListedTotal >= DestMinimum
        THEN /\ outcome = "ok"
             /\ LeftoverShape(ReturnedTx.outputs, ListedTotal, DestMinimum,
                              arg.max_count)
        ELSE outcome = "panic" /\ value = None

\* q > K = 2 with a leftover on the first of the two outputs.
C6_Witness ==
    /\ DisperseDone
    /\ outcome = "ok"
    /\ arg.max_count = 2
    /\ ListedTotal \div DestMinimum > 2
    /\ ReturnedTx.outputs[1].capacity > ReturnedTx.outputs[2].capacity

ListingAt(i) == sent[i].rpc = "get_cells_by_lock_hash"

TipQueryAt(i) == sent[i].rpc = "get_tip_block_number"

\* C7: the cell-listing request of cells_by_lock_hash, total_capacity, gather
\* and disperse carries the hash of the source lock, `from` or 0 when absent,
\* and `to` or, when absent, the height one preceding tip-height query
\* returned; no tip-height query is posted when `to` is given.
C7_DefaultResolution ==
    method \in CellsFamily =>
        /\ \A i \in 1..Len(sent) : ListingAt(i) =>
               /\ sent[i].params[1] = Hash(arg.lock_in)
               /\ sent[i].params[2] =
                      ToString(IF IsSome(arg.from) THEN Unwrap(arg.from) ELSE 0)
               /\ IF IsSome(arg.to)
                  THEN /\ i = 1
                       /\ sent[i].params[3] = ToString(Unwrap(arg.to))
                  ELSE /\ i = 2
                       /\ TipQueryAt(1)
                       /\ IsSome(tip)
                       /\ IsSome(ParseU64(Unwrap(tip)))
                       /\ sent[i].params[3] =
                              ToString(Unwrap(ParseU64(Unwrap(tip))))
        /\ IsSome(arg.to) => \A i \in 1..Len(sent) : ~TipQueryAt(i)
        /\ ~IsSome(arg.to) => \A i \in 1..Len(sent) : TipQueryAt(i) <=> i = 1
        /\ (IsSome(cells) \/ pc = "cells") => ListingAt(Len(sent))

\* Both bounds absent, the tip reply "03": the listing asks for 0 to 3.
C7_Witness ==
    /\ method = "gather"
    /\ arg.from = None
    /\ arg.to = None
    /\ tip = Some(<<"0", "3">>)
    /\ pc = "cells"
    /\ sent[2].params[3] = <<"3">>

\* The error a failing step of the invocation returns.
StepErrors ==
    /\ (IsSome(tip) /\ ~IsSome(ParseU64(Unwrap(tip)))) =>
           /\ outcome = "err"
           /\ error = "parse block number failed"
           /\ Len(sent) = 1
    /\ (IsSome(cells) /\ method \in {"total_capacity", "gather", "disperse"}
          /\ ~IsSome(ParseAll(Unwrap(cells)))) =>
           /\ outcome = "err"
           /\ error = "parse capacity failed"
    /\ (Listed /\ method \in {"total_capacity", "gather", "disperse"}
          /\ ListedTotal > U64Max) =>
           /\ outcome = "err"
           /\ error = "sum capacity overflow"
    /\ (method = "disperse" /\ pc = "done" /\ Listed /\ ListedTotal \in 1..U64Max
          /\ arg.max_count > 0 /\ ~HasMinimum(NewOutput(0, arg.lock_out))) =>
           /\ outcome = "err"
           /\ error = "capacity overflow"
    /\ error = "fetch block hash failed" => sent[Len(sent)].rpc = "get_block_hash"
    /\ error = "fetch block failed" => sent[Len(sent)].rpc = "get_block"
    /\ error \in {"parse capacity failed", "sum capacity overflow",
                  "input is empty", "capacity overflow"} => ListingAt(Len(sent))

\* An error ends the invocation without a value, and no request is repeated.
FailureIsFinal ==
    /\ outcome = "err" => pc = "done" /\ value = None /\ error # ""
    /\ outcome = "pending" => value = None
    /\ \A i, j \in 1..Len(sent) : i < j => sent[i].rpc # sent[j].rpc

\* C8: a failing step makes the invocation return that error: the step that
\* fails posts no request, nothing is posted or changed after it, no request
\* is repeated and no value is returned.
C8_AllOrNothing ==
    /\ [](StepErrors /\ FailureIsFinal)
    /\ [][(outcome' = "err" => sent' = sent) /\ pc # "done"]_vars

\* disperse fails on the minimum-capacity computation after building inputs.
C8_Witness ==
    /\ method = "disperse"
    /\ outcome = "err"
    /\ error = "capacity overflow"
    /\ Len(inputs) = 2
    /\ Len(sent) = 2

\* The number of requests a completed invocation has posted.
ExpectedRequests ==
    CASE method = "block_hash" -> IF IsSome(arg.height) THEN 1 ELSE 2
      [] method \in BlockFamily -> IF IsSome(arg.height) THEN 2 ELSE 3
      [] method \in CellsFamily -> IF IsSome(arg.to) THEN 1 ELSE 2
      [] OTHER -> 1

\* C9 as stated: every invocation posts exactly one request.
C9_OneRequestAsStated == (pc = "done" /\ outcome = "ok") => Len(sent) = 1

\* C9 as amended: a method without an optional height posts one request;
\* block_hash posts 1 (height given) or 2 (absent), block_by_number 2 or 3,
\* genesis_block 2, last_block 3, cells_by_lock_hash 1 (`to` given) or 2,
\* total_capacity 2; an invocation that fails posts no more than that.
C9_RequestCount ==
    method # "" =>
        /\ Len(sent) <= ExpectedRequests
        /\ outcome \in {"ok", "panic"} => Len(sent) = ExpectedRequests
        /\ method = "genesis_block" => arg.height = Some(0)
        /\ method = "last_block" => arg.height = None
        /\ method = "total_capacity" => arg.from = None /\ arg.to = None

\* last_block returned a block after tip, hash and block requests.
C9_Witness ==
    /\ Returned("last_block")
    /\ Len(sent) = 3
    /\ sent[3].rpc = "get_block"

\* The no-output case of C10: a positive total and max_count = 0 or a
\* minimum above the total.
NoOutputCase ==
    /\ ListedTotal > 0
    /\ \/ arg.max_count = 0
       \/ /\ HasMinimum(NewOutput(0, arg.lock_out))
          /\ DestMinimum > ListedTotal

\* C10: in the no-output case disperse ends the loop without an output and
\* then panics on outputs[0], returning nothing; in every other case the
\* first output exists when the leftover is added, and nothing panics.
C10_NoOutputPanics ==
    (method = "disperse" /\ Listed /\ Unwrap(cells) # <<>> /\ ListedTotal <= U64Max) =>
        /\ (NoOutputCase /\ pc = "leftover") => outputs = <<>> /\ capacity > 0
        /\ (NoOutputCase /\ pc = "done") =>
               outcome = "panic" /\ value = None /\ outputs = <<>>
        /\ (~NoOutputCase /\ pc = "leftover" /\ capacity > 0) => outputs # <<>>
        /\ outcome = "panic" => NoOutputCase

\* max_count > 0 and a minimum above the total: the panic.
C10_Witness ==
    /\ method = "disperse"
    /\ outcome = "panic"
    /\ arg.max_count > 0
    /\ Listed
    /\ DestMinimum > ListedTotal

====
